---- MODULE Spec2Model ----
(***************************************************************************)
(* anticipy.forecast_plot: the render entry point plot_forecast and the    *)
(* two figure builders, as a state machine over one render call.           *)
(*                                                                         *)
(* A table (pandas DataFrame) is a record                                  *)
(*   [tabular, columns, date_dtype, rows]                                  *)
(* whose rows carry the series identifier (column "source"), the           *)
(* actual/forecast flag (column "is_actuals") and the model label.         *)
(* Python objects live in `heap`; a name such as df_fcast holds a          *)
(* reference (an index of heap), so that rebinding a name to a copy and    *)
(* writing through a name are different things, as they are in Python.     *)
(*                                                                         *)
(* Left out, as nothing here depends on them: the figure size and dpi, the *)
(* title and legend options, auto_open (a viewer opened after the write)   *)
(* and init_notebook_mode (called before the inline figure is built).      *)
(***************************************************************************)
EXTENDS Integers, Sequences, FiniteSets, TLC

\* ---------------------------------------------------------------- bounds
\* Rows of a table of the general (control-flow) input family.
MaxRows == 2
\* Series identifiers of a table of the faceted input family.
MaxSeries == 5
\* Series identifiers of a table of the layout input family.
MaxPanes == 8
\* Rows of a table of the interval-band input family.
MaxBandRows == 2

VARIABLES
    heap,                \* Python objects: heap[1] is the caller's table
    df_fcast,            \* plot_forecast's name df_fcast: a reference into heap
    df_at_entry,         \* the caller's table as it was when the call began
    include_interval,    \* parameter include_interval
    pi_q1,               \* parameter pi_q1: the outer percentile
    pi_q2,               \* parameter pi_q2: the inner percentile
    output,              \* parameter output
    path,                \* plot_forecast's name path (rebound when the extension is added)
    path_at_entry,       \* parameter path as the caller passed it
    matplotlib_imported, \* module globals set at import time
    plotly_imported,
    ipython_imported,
    dirs,                \* file system: the directories that exist
    dirs_at_entry,       \* the directories that existed when the call began
    files,               \* file system: the files that exist
    pc,                  \* position of the call inside plot_forecast
    result,              \* how the call ended: a returned value or a raised exception
    subplots,            \* locals of plot_forecast set by mode inference
    sources,
    nrows,
    ncols,
    fig,                 \* the figure the builder returned
    invoked              \* the builders invoked so far, in order

vars == <<heap, df_fcast, df_at_entry, include_interval, pi_q1, pi_q2,
                   output, path, path_at_entry,
          matplotlib_imported, plotly_imported, ipython_imported, dirs,
          dirs_at_entry, files, pc, result,
          subplots, sources, nrows, ncols, fig, invoked>>

\* ------------------------------------------------------------ values
\* path=None, and a path given as its components ("" has none).
NonePath == [given |-> FALSE, parts |-> <<>>]
GivenPath(parts) == [given |-> TRUE, parts |-> parts]
NoFig == [backend |-> "none", nrows |-> 0, ncols |-> 0, panes |-> <<>>, hidden |-> {}]
NoTitle == "<no title>"
AllRows == "<all rows>"

NoResult == [kind |-> "none", value |-> 0, exc |-> "none"]
Return(v) == [kind |-> "return", value |-> v, exc |-> "none"]
ReturnObject == [kind |-> "return_object", value |-> 0, exc |-> "none"]
Raise(e) == [kind |-> "raise", value |-> 0, exc |-> e]

SeriesName(i) == "ts" \o ToString(i)

\* A row of the table: its series identifier, actual/forecast flag, model
\* label, date, and the quantile columns in which it holds a value (every
\* other quantile column is NaN in this row).
DatedRow(src, act, mdl, date, notna) ==
    [source |-> src, is_actuals |-> act, model |-> mdl, date |-> date,
     notna |-> notna]

\* A row without quantile values. The model label of an actuals row is "actuals".
Row(src, act, mdl) == DatedRow(src, act, mdl, 1, {})
ActualRow(src) == Row(src, TRUE, "actuals")
ForecastRow(src) == Row(src, FALSE, "forecast")
WeightRow(src) == Row(src, FALSE, "weight")

AllColumns == {"date", "source", "is_actuals", "model", "y"}

Frame(cols, dtype, rows) ==
    [tabular |-> TRUE, columns |-> cols, date_dtype |-> dtype, rows |-> rows]
\* An argument that is not a DataFrame at all.
NotAFrame ==
    [tabular |-> FALSE, columns |-> {}, date_dtype |-> "none", rows |-> <<>>]

\* ------------------------------------------------------ pandas helpers
Range(s) == {s[i] : i \in 1..Len(s)}

RECURSIVE Unique(_)
\* Series.unique(): the distinct values in first-seen order.
Unique(s) ==
    IF s = <<>> THEN <<>>
    ELSE LET init == Unique(SubSeq(s, 1, Len(s) - 1))
             last == s[Len(s)]
         IN IF last \in Range(init) THEN init ELSE Append(init, last)

Column(rows, c) == [i \in 1..Len(rows) |-> rows[i][c]]

\* Series.nunique(): the number of distinct values.
Nunique(s) == Cardinality(Range(s))

IsActuals(r) == r.is_actuals
NotWeight(r) == r.model # "weight"

\* ------------------------------------------------------- grid layout
\* int(np.ceil(np.sqrt(n))): the least r with r*r >= n.
CeilSqrt(n) == CHOOSE r \in 0..n : r * r >= n /\ \A q \in 0..(r - 1) : q * q < n

\* Faulty variant of CeilDiv: the quotient truncated instead of rounded up.
FloorDiv(n, r) == n \div r

\* int(np.ceil(1.0 * n / r)) for r > 0.
CeilDiv(n, r) == (n + r - 1) \div r

\* plot_forecast, the test that selects faceted mode.
UseSubplots(df) ==
    "source" \in df.columns /\ Nunique(Column(df.rows, "source")) > 1

\* plot_forecast, the faceted branch: the series list and the grid, or the
\* exception the branch raises.
FacetPlan(df) ==
    IF "is_actuals" \notin df.columns
    THEN [exc |-> "KeyError", sources |-> <<>>, nrows |-> 0, ncols |-> 0]
    ELSE LET srcs == Unique(Column(SelectSeq(df.rows, IsActuals), "source"))
             num_plots == Len(srcs)
             r == CeilSqrt(num_plots)
         IN IF r = 0
            THEN [exc |-> "ZeroDivisionError", sources |-> srcs,
                  nrows |-> r, ncols |-> 0]
            ELSE [exc |-> "none", sources |-> srcs,
                  nrows |-> r, ncols |-> CeilDiv(num_plots, r)]

\* plot_forecast, the non-faceted branch.
SinglePlan == [exc |-> "none", sources |-> <<"y">>, nrows |-> 1, ncols |-> 1]

\* --------------------------------------------------------- the builders
\* One pass of a builder's `for src in sources` loop: the panes drawn from cell
\* (x, y) on; `first` is the index of a grid's first row and column (0 for
\* matplotlib's axes array, 1 for plotly's subplot grid).
\* Faulty variant of Wraps: the cursor wraps one column too late.
WrapsLate(y, nc, first) == y + 1 > nc + first

\* `y += 1; if y >= ncols` (matplotlib, columns from 0) and `y += 1; if y >
\* ncols` (plotly, columns from 1): the cursor leaves the row after column y.
Wraps(y, nc, first) == y + 1 >= nc + first

RECURSIVE DrawPanes(_, _, _, _, _, _, _)
DrawPanes(srcs, use_subplots, x, y, nr, nc, first) ==
    IF srcs = <<>>
    THEN [exc |-> "none", panes |-> <<>>, x |-> x, y |-> y]
    ELSE IF x >= nr + first \/ y >= nc + first
    THEN [exc |-> "IndexError", panes |-> <<>>, x |-> x, y |-> y]
    ELSE LET pane == [x |-> x, y |-> y, src |-> Head(srcs),
                      title |-> IF use_subplots THEN Head(srcs) ELSE NoTitle,
                      source_filt |-> IF use_subplots THEN Head(srcs) ELSE AllRows]
             wrap == Wraps(y, nc, first)
             rest == DrawPanes(Tail(srcs), use_subplots,
                               IF wrap THEN x + 1 ELSE x,
                               IF wrap THEN first ELSE y + 1, nr, nc, first)
         IN [rest EXCEPT !.panes = <<pane>> \o @]

\* Fill opacities, in hundredths: alpha=0.12 and alpha=0.08 of the two
\* fill_between calls, and the two values of the plotly fillcolor.
MplAlphaQ5 == 12
MplAlphaQ20 == 8
PlotlyAlphaFirst == 12
PlotlyAlphaOther == 8

\* The name of the column holding percentile p: f"q{p}".
QuantileColumn(p) == "q" \o ToString(p)

\* source_filt applied to a row: True (every row) when not faceted, else the
\* rows of the pane's series.
InPane(r, source_filt) == source_filt = AllRows \/ r.source = source_filt

\* df.loc[source_filt & df["is_actuals"]] and df.loc[source_filt &
\* ~df["is_actuals"]]: the rows of a pane's channel, in the table's row order.
ChannelRows(rows, source_filt, actuals) ==
    LET Keep(r) == InPane(r, source_filt) /\ r.is_actuals = actuals
    IN SelectSeq(rows, Keep)

\* Lines 134-164: one fill_between, over the forecast rows of the pane that
\* hold a value in both columns.
MplBand(rows, source_filt, low, hi, alpha) ==
    LET Where(r) == /\ InPane(r, source_filt) /\ ~r.is_actuals
                    /\ low \in r.notna /\ hi \in r.notna
    IN [low |-> low, hi |-> hi, alpha |-> alpha,
        points |-> SelectSeq(rows, Where),
        showlegend |-> TRUE, hoverinfo |-> "none"]

\* Lines 105-190: what the matplotlib builder draws in one cell. The pairs
\* q5/q95 and q20/q80 are fixed: the builder takes no percentile parameter.
MplPane(cell, rows, cols, interval) ==
    [x |-> cell.x, y |-> cell.y, src |-> cell.src, title |-> cell.title,
     source_filt |-> cell.source_filt,
     actuals |-> [points |-> ChannelRows(rows, cell.source_filt, TRUE),
                  legendgroup |-> "none", showlegend |-> TRUE],
     forecast |-> [points |-> ChannelRows(rows, cell.source_filt, FALSE),
                   legendgroup |-> "none", showlegend |-> TRUE],
     bands |-> (IF interval /\ {"q5", "q95"} \subseteq cols
                THEN <<MplBand(rows, cell.source_filt, "q5", "q95", MplAlphaQ5)>>
                ELSE <<>>)
               \o (IF interval /\ {"q20", "q80"} \subseteq cols
                   THEN <<MplBand(rows, cell.source_filt, "q20", "q80", MplAlphaQ20)>>
                   ELSE <<>>)]

\* Faulty variant of FirstSourceFlag: the flag is never cleared.
FirstSourceAlways(i) == TRUE

\* is_first_source: True in the first pass of the loop, False afterwards.
FirstSourceFlag(i) == i = 1

\* Lines 301-325: the two traces of one percentile pair (q_low, and q_hi
\* filled down to it), over every forecast row of the pane. Both traces carry
\* showlegend=False and hoverinfo="skip".
PlotlyBand(rows, source_filt, pi_q, q1) ==
    [low |-> QuantileColumn(pi_q), hi |-> QuantileColumn(100 - pi_q),
     alpha |-> IF pi_q = q1 THEN PlotlyAlphaFirst ELSE PlotlyAlphaOther,
     points |-> ChannelRows(rows, source_filt, FALSE),
     showlegend |-> FALSE, hoverinfo |-> "skip"]

\* Lines 266-331: what the plotly builder draws in the i-th pane.
PlotlyPane(cell, i, rows, cols, interval, q1, q2) ==
    LET Pair(pi_q) ==
            IF interval /\ {QuantileColumn(pi_q), QuantileColumn(100 - pi_q)}
                             \subseteq cols
            THEN <<PlotlyBand(rows, cell.source_filt, pi_q, q1)>>
            ELSE <<>>
    IN [x |-> cell.x, y |-> cell.y, src |-> cell.src, title |-> cell.title,
        source_filt |-> cell.source_filt,
        actuals |-> [points |-> ChannelRows(rows, cell.source_filt, TRUE),
                     legendgroup |-> "actuals", showlegend |-> FirstSourceFlag(i)],
        forecast |-> [points |-> ChannelRows(rows, cell.source_filt, FALSE),
                      legendgroup |-> "forecast", showlegend |-> FirstSourceFlag(i)],
        bands |-> Pair(q1) \o Pair(q2)]

\* _matplotlib_forecast_create: the figure, or the exception it raises.
MatplotlibForecastCreate(df, use_subplots, srcs, nr, nc, interval) ==
    IF "model" \notin df.columns THEN [exc |-> "AttributeError", fig |-> NoFig]
    ELSE IF srcs # <<>> /\ "is_actuals" \notin df.columns
    THEN [exc |-> "KeyError", fig |-> NoFig]
    ELSE LET drawn == DrawPanes(srcs, use_subplots, 0, 0, nr, nc, 0)
             rows == SelectSeq(df.rows, NotWeight)
         IN IF drawn.exc # "none" THEN [exc |-> drawn.exc, fig |-> NoFig]
            ELSE [exc |-> "none",
                  fig |-> [backend |-> "matplotlib", nrows |-> nr, ncols |-> nc,
                           panes |-> [i \in 1..Len(drawn.panes) |->
                                        MplPane(drawn.panes[i], rows, df.columns,
                                                interval)],
                           hidden |-> {c \in (0..(nr - 1)) \X (0..(nc - 1)) :
                                         \/ c[1] > drawn.x
                                         \/ c[1] = drawn.x /\ c[2] >= drawn.y}]]

\* _plotly_forecast_create: the figure, or the exception it raises.
PlotlyForecastCreate(df, use_subplots, srcs, nr, nc, interval, q1, q2) ==
    IF srcs # <<>> /\ "is_actuals" \notin df.columns
    THEN [exc |-> "KeyError", fig |-> NoFig]
    ELSE LET drawn == DrawPanes(srcs, use_subplots, 1, 1, nr, nc, 1)
         IN IF drawn.exc # "none" THEN [exc |-> drawn.exc, fig |-> NoFig]
            ELSE [exc |-> "none",
                  fig |-> [backend |-> "plotly", nrows |-> nr, ncols |-> nc,
                           panes |-> [i \in 1..Len(drawn.panes) |->
                                        PlotlyPane(drawn.panes[i], i, df.rows,
                                                   df.columns, interval, q1, q2)],
                           hidden |-> {}]]

\* ------------------------------------------------------- plot_forecast
\* `not path`: None and "" are both falsy.
PathTruthy(p) == p.given /\ p.parts # <<>>

\* Faulty variant of MissingPath: `path is None` in place of `not path`.
MissingPathNoneOnly(p, out) == ~p.given /\ (out = "html" \/ out = "png")

\* The test `not path and (output == "html" or output == "png")`.
MissingPath(p, out) == ~PathTruthy(p) /\ (out = "html" \/ out = "png")

\* The capability test of each branch of the output dispatch.
CapabilityAvailable(out) ==
    CASE out = "png" -> matplotlib_imported
      [] out = "html" -> plotly_imported
      [] out = "jupyter" -> plotly_imported /\ ipython_imported
      [] OTHER -> FALSE

KnownOutputs == {"png", "html", "jupyter"}

\* The extension a file-producing mode appends.
Extension(out) == IF out = "png" THEN ".png" ELSE ".html"

\* Faulty variant of WithExtension: the path used as given.
WithoutExtension(p, ext) == p

\* f"{path}.png", f"{path}.html": the extension goes on the last component.
WithExtension(p, ext) ==
    IF p.parts = <<>> THEN GivenPath(<<(IF p.given THEN "" ELSE "None") \o ext>>)
    ELSE GivenPath([p.parts EXCEPT ![Len(p.parts)] = @ \o ext])

\* os.path.split(path)[0]
Dirname(p) == SubSeq(p.parts, 1, Len(p.parts) - 1)

\* os.makedirs(dirname, exist_ok=True): the directory and its parents.
MakeDirs(existing, dirname) ==
    existing \cup {SubSeq(dirname, 1, k) : k \in 1..Len(dirname)}

\* pd.api.types.is_datetime64_any_dtype(df["date"])
IsDatetime(df) == df.date_dtype = "datetime64"

\* Faulty variant of CoercionFails: a conversion that never raises (errors="coerce").
CoercionNeverFails(df) == FALSE

\* pd.to_datetime(df["date"]) raises on a column it cannot parse.
CoercionFails(df) == df.date_dtype = "object_unparseable"

\* Faulty variant of CopyRef: no copy, df_fcast keeps naming the object it named.
SameRef(ref, h) == ref

\* `df_fcast = df_fcast.copy()`: the name df_fcast is rebound to a fresh object,
\* allocated after the objects of heap h.
CopyRef(ref, h) == Len(h) + 1

\* What a non-DataFrame argument raises: the assertion of line 423, or, when
\* Python runs with assertions stripped (-O), the attribute access of line 426.
NotTabularErrors == {"AssertionError", "AttributeError"}

Finish(r) ==
    /\ pc' = "done"
    /\ result' = r

\* Lines 423-436: the isinstance assertion, the date column test, the coercion.
Validate ==
    /\ pc = "entry"
    /\ LET df == heap[df_fcast]
       IN IF ~df.tabular
          THEN /\ \E e \in NotTabularErrors : Finish(Raise(e))
               /\ UNCHANGED <<heap, df_fcast>>
          ELSE IF "date" \notin df.columns
          THEN Finish(Return(1)) /\ UNCHANGED <<heap, df_fcast>>
          ELSE IF IsDatetime(df)
          THEN pc' = "path_check" /\ UNCHANGED <<heap, df_fcast, result>>
          ELSE LET copied == Append(heap, df)
                   local == CopyRef(df_fcast, heap)
               IN /\ df_fcast' = local
                  /\ IF CoercionFails(df)
                     THEN heap' = copied /\ Finish(Return(1))
                     ELSE /\ heap' = [copied EXCEPT
                                        ![local].date_dtype = "datetime64"]
                          /\ pc' = "path_check"
                          /\ UNCHANGED result
    /\ UNCHANGED <<df_at_entry, include_interval, pi_q1, pi_q2,
                   output, path, path_at_entry, matplotlib_imported,
                   plotly_imported, ipython_imported, dirs, dirs_at_entry, files,
                   subplots, sources, nrows, ncols, fig, invoked>>

\* Lines 438-448: the size defaults and the missing-path test.
CheckPath ==
    /\ pc = "path_check"
    /\ IF MissingPath(path, output)
       THEN Finish(Return(1))
       ELSE pc' = "infer" /\ UNCHANGED result
    /\ UNCHANGED <<heap, df_fcast, df_at_entry, include_interval, pi_q1, pi_q2,
                   output, path, path_at_entry,
                   matplotlib_imported, plotly_imported, ipython_imported, dirs,
                   dirs_at_entry, files, subplots, sources, nrows, ncols, fig,
                   invoked>>

\* Lines 450-461: single-series or faceted mode, the series list and the grid.
InferMode ==
    /\ pc = "infer"
    /\ LET df == heap[df_fcast]
           faceted == UseSubplots(df)
           plan == IF faceted THEN FacetPlan(df) ELSE SinglePlan
       IN IF plan.exc # "none"
          THEN /\ Finish(Raise(plan.exc))
               /\ subplots' = faceted
               /\ UNCHANGED <<sources, nrows, ncols>>
          ELSE /\ subplots' = faceted
               /\ sources' = plan.sources
               /\ nrows' = plan.nrows
               /\ ncols' = plan.ncols
               /\ pc' = "dispatch"
               /\ UNCHANGED result
    /\ UNCHANGED <<heap, df_fcast, df_at_entry, include_interval, pi_q1, pi_q2,
                   output, path, path_at_entry,
                   matplotlib_imported, plotly_imported, ipython_imported, dirs,
                   dirs_at_entry, files, fig, invoked>>

\* Lines 463-464, 494-495, 523-524, 546-551: the branch on output and on the
\* capability it needs; an unknown output and a missing capability return 1.
Dispatch ==
    /\ pc = "dispatch"
    /\ IF output \in KnownOutputs /\ CapabilityAvailable(output)
       THEN pc' = "build" /\ UNCHANGED result
       ELSE Finish(Return(1))
    /\ UNCHANGED <<heap, df_fcast, df_at_entry, include_interval, pi_q1, pi_q2,
                   output, path, path_at_entry,
                   matplotlib_imported, plotly_imported, ipython_imported, dirs,
                   dirs_at_entry, files, subplots, sources, nrows, ncols, fig,
                   invoked>>

\* Faulty variant of BuilderFailure: the exception caught and reported as 1.
BuilderFailureCaught(e) == Return(1)

\* The builder is called outside any try block: what it raises ends the call.
BuilderFailure(e) == Raise(e)

\* Lines 465-477, 496-510, 525-540: the call of the mode's builder. The
\* matplotlib builder works on its own filtered, re-indexed copy of the table.
Build ==
    /\ pc = "build"
    /\ LET df == heap[df_fcast]
           mpl == output = "png"
           built == IF mpl
                    THEN MatplotlibForecastCreate(df, subplots, sources, nrows,
                                                  ncols, include_interval)
                    ELSE PlotlyForecastCreate(df, subplots, sources, nrows, ncols,
                                              include_interval, pi_q1, pi_q2)
       IN /\ invoked' = Append(invoked, IF mpl THEN "matplotlib" ELSE "plotly")
          /\ heap' = IF mpl /\ "model" \in df.columns
                     THEN Append(heap, [df EXCEPT
                                          !.rows = SelectSeq(df.rows, NotWeight)])
                     ELSE heap
          /\ IF built.exc # "none"
             THEN Finish(BuilderFailure(built.exc)) /\ UNCHANGED fig
             ELSE /\ fig' = built.fig
                  /\ pc' = IF output = "jupyter" THEN "iplot" ELSE "mkdir"
                  /\ UNCHANGED result
    /\ UNCHANGED <<df_fcast, df_at_entry, include_interval, pi_q1, pi_q2,
                   output, path, path_at_entry,
                   matplotlib_imported, plotly_imported, ipython_imported, dirs,
                   dirs_at_entry, files, subplots, sources, nrows, ncols>>

\* Lines 479-483, 511-515: the extension is appended to path and the output
\* directory is created if it is named and absent.
PrepareDir ==
    /\ pc = "mkdir"
    /\ LET named == WithExtension(path, Extension(output))
           dirname == Dirname(named)
       IN /\ path' = named
          /\ dirs' = IF dirname # <<>> /\ dirname \notin dirs
                     THEN MakeDirs(dirs, dirname)
                     ELSE dirs
    /\ pc' = "write"
    /\ UNCHANGED <<heap, df_fcast, df_at_entry, include_interval, pi_q1, pi_q2,
                   output, path_at_entry,
                   matplotlib_imported, plotly_imported, ipython_imported,
                   dirs_at_entry, files, result, subplots, sources, nrows, ncols,
                   fig, invoked>>

\* Lines 484-485, 516-518: plt.savefig / py.offline.plot write the artifact.
Write ==
    /\ pc = "write"
    /\ files' = files \cup {path.parts}
    /\ pc' = "return"
    /\ UNCHANGED <<heap, df_fcast, df_at_entry, include_interval, pi_q1, pi_q2,
                   output, path, path_at_entry,
                   matplotlib_imported, plotly_imported, ipython_imported, dirs,
                   dirs_at_entry, result, subplots, sources, nrows, ncols, fig,
                   invoked>>

\* Line 541: the inline mode returns what py.offline.iplot returns.
IPlot ==
    /\ pc = "iplot"
    /\ Finish(ReturnObject)
    /\ UNCHANGED <<heap, df_fcast, df_at_entry, include_interval, pi_q1, pi_q2,
                   output, path, path_at_entry,
                   matplotlib_imported, plotly_imported, ipython_imported, dirs,
                   dirs_at_entry, files, subplots, sources, nrows, ncols, fig,
                   invoked>>

\* Line 553: return 0.
ReturnSuccess ==
    /\ pc = "return"
    /\ Finish(Return(0))
    /\ UNCHANGED <<heap, df_fcast, df_at_entry, include_interval, pi_q1, pi_q2,
                   output, path, path_at_entry,
                   matplotlib_imported, plotly_imported, ipython_imported, dirs,
                   dirs_at_entry, files, subplots, sources, nrows, ncols, fig,
                   invoked>>

Next ==
    \/ Validate
    \/ CheckPath
    \/ InferMode
    \/ Dispatch
    \/ Build
    \/ PrepareDir
    \/ Write
    \/ IPlot
    \/ ReturnSuccess

\* ---------------------------------------------------------------- inputs
\* Series identifiers are interchangeable, so tables are enumerated with the
\* identifiers numbered in first-seen order.
RECURSIVE RowSeqs(_)
\* The row sequences of length n (one actuals or forecast row per position).
RowSeqs(n) ==
    IF n = 0 THEN {<<>>}
    ELSE UNION {{Append(s, r) :
                   r \in {ActualRow(SeriesName(i)) :
                            i \in 1..(Nunique(Column(s, "source")) + 1)}
                      \cup {ForecastRow(SeriesName(i)) :
                            i \in 1..(Nunique(Column(s, "source")) + 1)}} :
                s \in RowSeqs(n - 1)}

\* A table without column c holds no values of it: the field keeps one
\* placeholder value that nothing reads.
WithoutColumn(rows, c) ==
    [i \in 1..Len(rows) |->
        [rows[i] EXCEPT ![c] = IF c = "is_actuals" THEN FALSE ELSE "<absent>"]]

\* The tables of the general input family: every column layout and date type.
GeneralTables ==
    LET seqs == UNION {RowSeqs(n) : n \in 0..MaxRows}
    IN {NotAFrame}
       \cup {Frame(AllColumns, t, s) :
               t \in {"datetime64", "object", "object_unparseable"}, s \in seqs}
       \cup {Frame(AllColumns \ {"date"}, "none", s) : s \in seqs}
       \cup {Frame(AllColumns \ {c}, "datetime64", WithoutColumn(s, c)) :
               c \in {"source", "is_actuals", "model"}, s \in seqs}

\* The rows of one series of a table of the faceted input family.
SeriesRows(kind, src) ==
    CASE kind = "A" -> <<ActualRow(src)>>
      [] kind = "F" -> <<ForecastRow(src)>>
      [] kind = "AF" -> <<ActualRow(src), ForecastRow(src)>>
      [] kind = "AFW" -> <<ActualRow(src), ForecastRow(src), WeightRow(src)>>

RECURSIVE FacetRows(_)
\* The table holding, series after series, the rows kinds[i] names for series i.
FacetRows(kinds) ==
    IF kinds = <<>> THEN <<>>
    ELSE FacetRows(SubSeq(kinds, 1, Len(kinds) - 1))
         \o SeriesRows(kinds[Len(kinds)], SeriesName(Len(kinds)))

FacetTables ==
    UNION {{Frame(AllColumns, "datetime64", FacetRows(kinds)) :
              kinds \in [1..k -> {"A", "F", "AF", "AFW"}]} : k \in 0..MaxSeries}

Paths ==
    {NonePath, GivenPath(<<>>), GivenPath(<<"out">>), GivenPath(<<"plots", "out">>)}

InitCallWith(df, out, p, existing, interval, q1, q2) ==
    /\ include_interval = interval
    /\ pi_q1 = q1
    /\ pi_q2 = q2
    /\ heap = <<df>>
    /\ df_fcast = 1
    /\ df_at_entry = df
    /\ output = out
    /\ path = p
    /\ path_at_entry = p
    /\ dirs = existing
    /\ dirs_at_entry = existing
    /\ files = {}
    /\ pc = "entry"
    /\ result = NoResult
    /\ subplots = FALSE
    /\ sources = <<>>
    /\ nrows = 0
    /\ ncols = 0
    /\ fig = NoFig
    /\ invoked = <<>>

\* A call that leaves include_interval, pi_q1 and pi_q2 at their defaults
\* (lines 402-404).
InitCall(df, out, p, existing) == InitCallWith(df, out, p, existing, FALSE, 5, 20)

\* Small tables of every shape, with every output mode, path and environment.
InitGeneral ==
    /\ matplotlib_imported \in BOOLEAN
    /\ plotly_imported \in BOOLEAN
    /\ ipython_imported \in BOOLEAN
    /\ \E df \in GeneralTables, out \in KnownOutputs \cup {"svg"}, p \in Paths :
         \E existing \in (IF Dirname(p) = <<>> THEN {{}} ELSE {{}, {Dirname(p)}}) :
            InitCall(df, out, p, existing)

\* Well-formed tables of up to MaxSeries series, every backend installed.
InitFacet ==
    /\ matplotlib_imported = TRUE
    /\ plotly_imported = TRUE
    /\ ipython_imported = TRUE
    /\ \E df \in FacetTables, out \in KnownOutputs :
         InitCall(df, out, GivenPath(<<"plots", "out">>), {})

Init == InitGeneral \/ InitFacet

Spec == Init /\ [][Next]_vars

\* ------------------------------------------------- inputs of the renderers
\* The columns of the two default percentile pairs.
DefaultQuantileColumns == {"q5", "q95", "q20", "q80"}

\* The rows of one series of a table of the layout family: an actuals row and
\* a later forecast row with both bands ("AF"), or the forecast row alone ("F").
LayoutSeriesRows(kind, src) ==
    IF kind = "AF"
    THEN <<DatedRow(src, TRUE, "actuals", 1, {}),
           DatedRow(src, FALSE, "forecast", 2, DefaultQuantileColumns)>>
    ELSE <<DatedRow(src, FALSE, "forecast", 2, DefaultQuantileColumns)>>

RECURSIVE LayoutRows(_)
LayoutRows(kinds) ==
    IF kinds = <<>> THEN <<>>
    ELSE LayoutRows(SubSeq(kinds, 1, Len(kinds) - 1))
         \o LayoutSeriesRows(kinds[Len(kinds)], SeriesName(Len(kinds)))

LayoutTables ==
    UNION {{Frame(AllColumns \cup DefaultQuantileColumns, "datetime64",
                  LayoutRows(kinds)) :
              kinds \in [1..k -> {"AF", "F"}]} : k \in 1..MaxPanes}

\* Tables of up to MaxPanes series, rendered by each backend with and without
\* interval bands.
InitLayout ==
    /\ matplotlib_imported = TRUE
    /\ plotly_imported = TRUE
    /\ ipython_imported = TRUE
    /\ \E df \in LayoutTables, out \in KnownOutputs, interval \in BOOLEAN :
         InitCallWith(df, out, GivenPath(<<"plots", "out">>), {}, interval, 5, 20)

SpecLayout == InitLayout /\ [][Next]_vars

\* The quantile columns a table of the band family may carry.
QuantileColumnSets ==
    {{"q5", "q95", "q20", "q80"}, {"q10", "q90", "q20", "q80"}, {"q5", "q95"}}
LowColumns == {"q5", "q10", "q20"}
Dates == {1, 2}

\* The rows a table of the band family may hold for series src: an actuals or
\* a weight row (no quantile values), or a forecast row holding every quantile,
\* none, the lower bounds only or the upper bounds only.
BandRows(src, qcols) ==
    {DatedRow(src, TRUE, "actuals", d, {}) : d \in Dates}
    \cup {DatedRow(src, FALSE, "weight", d, {}) : d \in Dates}
    \cup {DatedRow(src, FALSE, "forecast", d, nn) :
            d \in Dates, nn \in {qcols, {}, qcols \cap LowColumns, qcols \ LowColumns}}

RECURSIVE BandRowSeqs(_, _)
\* The row sequences of length n, in any date order.
BandRowSeqs(n, qcols) ==
    IF n = 0 THEN {<<>>}
    ELSE UNION {{Append(s, r) :
                   r \in UNION {BandRows(SeriesName(i), qcols) :
                                  i \in 1..(Nunique(Column(s, "source")) + 1)}} :
                s \in BandRowSeqs(n - 1, qcols)}

BandTables ==
    UNION {{Frame(AllColumns \cup qcols, "datetime64", s) :
              s \in UNION {BandRowSeqs(n, qcols) : n \in 0..MaxBandRows}} :
           qcols \in QuantileColumnSets}

\* Small tables with quantile columns, weight rows and any date order, rendered
\* by each backend for each outer percentile.
InitBands ==
    /\ matplotlib_imported = TRUE
    /\ plotly_imported = TRUE
    /\ ipython_imported = TRUE
    /\ \E df \in BandTables, out \in KnownOutputs, interval \in BOOLEAN,
          q1 \in {5, 10} :
         InitCallWith(df, out, GivenPath(<<"plots", "out">>), {}, interval, q1, 20)

SpecBands == InitBands /\ [][Next]_vars

\* ---------------------------------------------------------------- claims
\* The distinct series identifiers among the actuals rows of the caller's table
\* (none when the table has no series column or no actual/forecast flag).
ActualSeries ==
    IF {"source", "is_actuals"} \subseteq df_at_entry.columns
    THEN {df_at_entry.rows[i].source :
            i \in {j \in 1..Len(df_at_entry.rows) : df_at_entry.rows[j].is_actuals}}
    ELSE {}

\* Mode inference has completed (the grid is set).
ModeInferred == nrows > 0

\* The table passes validation: tabular, with a date column that is, or can be
\* coerced to, a date type.
ValidationPasses ==
    /\ df_at_entry.tabular
    /\ "date" \in df_at_entry.columns
    /\ df_at_entry.date_dtype \in {"datetime64", "object"}

\* The table fails validation: no date column, or one that cannot be coerced.
ValidationFails ==
    /\ df_at_entry.tabular
    /\ \/ "date" \notin df_at_entry.columns
       \/ df_at_entry.date_dtype = "object_unparseable"

\* Nothing was rendered and the file system is as it was at entry.
NoRenderNoArtifact ==
    /\ invoked = <<>>
    /\ fig = NoFig
    /\ files = {}
    /\ dirs = dirs_at_entry

\* The capability the requested mode needs is missing.
CapabilityMissing ==
    \/ output = "png" /\ ~matplotlib_imported
    \/ output = "html" /\ ~plotly_imported
    \/ output = "jupyter" /\ ~(plotly_imported /\ ipython_imported)

\* C1: in faceted mode with n > 1 distinct series identifiers among the actuals
\* rows, rows is the ceiling of sqrt(n) and cols the ceiling of n / rows, so
\* rows * cols >= n and fewer than cols cells are left over; n = 5 gives (3, 2).
C1_GridShape ==
    LET n == Cardinality(ActualSeries)
    IN (ModeInferred /\ subplots /\ n > 1) =>
          /\ Len(sources) = n
          /\ (nrows - 1) * (nrows - 1) < n /\ n <= nrows * nrows
          /\ (ncols - 1) * nrows < n /\ n <= ncols * nrows
          /\ nrows * ncols - n < ncols
          /\ (n = 5 => nrows = 3 /\ ncols = 2)

C1_Witness ==
    /\ pc = "done" /\ result = Return(0)
    /\ subplots /\ Cardinality(ActualSeries) = 5
    /\ nrows = 3 /\ ncols = 2

\* C2: the call is faceted if and only if more than one distinct series
\* identifier occurs among the actuals rows; otherwise the grid is (1, 1) and
\* no pane has a title or a series filter.
C2_FacetedIffActualSeries ==
    ModeInferred =>
       /\ subplots <=> Cardinality(ActualSeries) > 1
       /\ Cardinality(ActualSeries) <= 1 =>
             /\ nrows = 1 /\ ncols = 1
             /\ \A i \in 1..Len(fig.panes) :
                   fig.panes[i].title = NoTitle /\ fig.panes[i].source_filt = AllRows

\* C3: with output png or html, a table that passes validation and no path, the
\* call never gets past the path test: no builder runs, nothing is written or
\* created, and the call ends returning 1, whatever the capabilities.
C3_MissingPathFails ==
    (/\ ValidationPasses
     /\ output \in {"png", "html"}
     /\ ~(path_at_entry.given /\ path_at_entry.parts # <<>>)) =>
        /\ pc \in {"entry", "path_check", "done"}
        /\ NoRenderNoArtifact
        /\ pc = "done" => result = Return(1)

C3_Witness ==
    /\ pc = "done" /\ result = Return(1)
    /\ ValidationPasses /\ Cardinality(ActualSeries) > 1
    /\ output = "html" /\ plotly_imported
    /\ path_at_entry = NonePath
    /\ NoRenderNoArtifact

\* C4: a call whose output is none of png, html, jupyter ends returning 1, with
\* no builder invoked and no file or directory created, with or without a path.
C4_UnknownOutputFails ==
    output \notin {"png", "html", "jupyter"} =>
        /\ NoRenderNoArtifact
        /\ pc = "done" => result = Return(1)

\* C5: a table with no date column, or with a date column that cannot be
\* coerced, ends the call returning 1 in every output mode with nothing rendered,
\* written or created; and a directory is only ever created after the figure is
\* built, by the step right before the write.
C5_ValidationFailure ==
    /\ [](ValidationFails =>
             /\ pc \in {"entry", "done"}
             /\ NoRenderNoArtifact
             /\ pc = "done" => result = Return(1))
    /\ [][dirs' # dirs => pc = "mkdir" /\ fig # NoFig /\ pc' = "write"]_vars

C5_Witness ==
    /\ pc = "done" /\ result = Return(1)
    /\ df_at_entry.date_dtype = "object_unparseable"
    /\ output = "png" /\ matplotlib_imported
    /\ path_at_entry = GivenPath(<<"plots", "out">>)
    /\ NoRenderNoArtifact

\* C6: when the capability the requested mode needs is missing, the call ends
\* with a failure result and not an exception, no builder is invoked, no file is
\* written and no directory is created.
C6_CapabilityMissingSkips ==
    CapabilityMissing =>
        /\ NoRenderNoArtifact
        /\ result.kind # "raise"
        /\ pc = "done" => result = Return(1)

\* C7: no call ends with an exception: every failure is the returned value 1.
C7_NoUncaughtException ==
    pc = "done" => result.kind \in {"return", "return_object"}

\* C8: a table with more than one series identifier and no actuals rows ends
\* the call returning 1, with no grid computed, no builder invoked and no
\* artifact written.
C8_EmptySeriesFails ==
    (/\ df_at_entry.tabular
     /\ {"date", "source", "is_actuals"} \subseteq df_at_entry.columns
     /\ Cardinality({df_at_entry.rows[i].source : i \in 1..Len(df_at_entry.rows)}) > 1
     /\ ActualSeries = {}) =>
        /\ nrows = 0 /\ ncols = 0
        /\ NoRenderNoArtifact
        /\ pc = "done" => result = Return(1)

\* A table the renderers accept: tabular, every required column present (the
\* series column is optional), dates that are or can be coerced to a date type,
\* and, with more than one series identifier, a non-empty series list.
ValidTable ==
    /\ ValidationPasses
    /\ {"date", "is_actuals", "model", "y"} \subseteq df_at_entry.columns
    /\ ("source" \in df_at_entry.columns
        /\ Cardinality({df_at_entry.rows[i].source :
                          i \in 1..Len(df_at_entry.rows)}) > 1)
          => ActualSeries # {}

\* The path the artifact is expected at: the caller's path plus the extension.
ExpectedArtifact ==
    LET parts == path_at_entry.parts
    IN [parts EXCEPT ![Len(parts)] = @ \o (IF output = "png" THEN ".png" ELSE ".html")]

C10_CallerTableUnchanged == heap[1] = df_at_entry

C10_Witness ==
    /\ pc = "done" /\ result = Return(0)
    /\ df_at_entry.date_dtype = "object"
    /\ heap[df_fcast].date_dtype = "datetime64"
    /\ output = "png" /\ Len(heap) = 3

\* The state of the orchestrator's state machine the call is in: 1 Validating
\* (validation and the path test), 2 ModeInferred (mode inference), 3 Rendering
\* (dispatch, builder, directory, write), 4 Done or Failed.
Stage(p) ==
    CASE p \in {"entry", "path_check"} -> 1
      [] p = "infer" -> 2
      [] p \in {"dispatch", "build", "mkdir", "write", "iplot", "return"} -> 3
      [] OTHER -> 4

\* C11: a call moves through Validating, ModeInferred, Rendering and Done in
\* that order, or from any of them to Failed; it invokes at most one builder,
\* exactly one when it returns success, none when it returns the failure 1, and
\* none before validation and mode inference have completed.
C11_StagesAndOneRenderer ==
    /\ [](/\ Len(invoked) <= 1
          /\ (result = Return(0) \/ result = ReturnObject) => Len(invoked) = 1
          /\ result = Return(1) => invoked = <<>>
          /\ invoked # <<>> => (ValidationPasses /\ ModeInferred /\ Stage(pc) >= 3)
          /\ (result = Return(0) \/ result = ReturnObject) => fig # NoFig)
    /\ [][\/ Stage(pc') = Stage(pc)
          \/ Stage(pc') = Stage(pc) + 1
          \/ pc' = "done" /\ result'.kind \in {"raise", "return"}
                          /\ result' # Return(0)]_vars

C11_Witness ==
    /\ pc = "done" /\ result = ReturnObject
    /\ invoked = <<"plotly">> /\ subplots /\ Len(fig.panes) = 3

\* ------------------------------------------------- claims on the renderers
\* The forecast-flagged rows of the caller's table that fall in a pane.
PaneForecastRows(pane) ==
    {r \in Range(df_at_entry.rows) : InPane(r, pane.source_filt) /\ ~r.is_actuals}

\* Band b is drawn at row r: r is a point of the filled trace and the trace
\* has a value there.
DrawnAt(b, r) == r \in Range(b.points) /\ b.hi \in r.notna

\* C12: with interval bands requested, each band drawn for a pair q{p}/q{100-p}
\* covers a forecast point if and only if that point holds a value in both
\* columns, in the raster and in the interactive renderer.
C12_BandIffBothBounds ==
    \A i \in 1..Len(fig.panes) :
       \A k \in 1..Len(fig.panes[i].bands) :
          \A r \in PaneForecastRows(fig.panes[i]) :
             LET b == fig.panes[i].bands[k]
             IN DrawnAt(b, r) <=> (b.low \in r.notna /\ b.hi \in r.notna)

\* The pairs the selectors name whose two columns the table has.
SelectedPairs ==
    {<<QuantileColumn(p), QuantileColumn(100 - p)>> : p \in {pi_q1, pi_q2}}
    \cap (df_at_entry.columns \X df_at_entry.columns)

\* C13: with interval bands requested, the bands of every pane are exactly
\* those of the pairs pi_q1 and pi_q2 select whose two columns exist, in png
\* mode as in html and jupyter mode.
C13_SelectorsChooseColumns ==
    (fig # NoFig /\ include_interval) =>
       \A i \in 1..Len(fig.panes) :
          {<<fig.panes[i].bands[k].low, fig.panes[i].bands[k].hi>> :
             k \in 1..Len(fig.panes[i].bands)} = SelectedPairs

\* The position among the actuals rows at which series src first occurs.
FirstSeen(src) ==
    CHOOSE j \in 1..Len(df_at_entry.rows) :
       /\ df_at_entry.rows[j].is_actuals /\ df_at_entry.rows[j].source = src
       /\ \A h \in 1..(j - 1) :
             ~(df_at_entry.rows[h].is_actuals /\ df_at_entry.rows[h].source = src)

\* C14: the raster renderer draws the i-th series (from 0, in first-seen order)
\* in cell (i div ncols, i mod ncols), never indexes a cell outside the grid,
\* and hides exactly the nrows * ncols - n cells after the last occupied one.
C14_RasterCells ==
    /\ result.exc # "IndexError"
    /\ fig.backend = "matplotlib" =>
          LET n == Len(fig.panes)
              Index(c) == c[1] * fig.ncols + c[2]
          IN /\ n = Len(sources) /\ n <= fig.nrows * fig.ncols
             /\ \A i \in 1..n :
                   /\ fig.panes[i].src = sources[i]
                   /\ fig.panes[i].x = (i - 1) \div fig.ncols
                   /\ fig.panes[i].y = (i - 1) % fig.ncols
                   /\ fig.panes[i].x < fig.nrows
                   /\ <<fig.panes[i].x, fig.panes[i].y>> \notin fig.hidden
             /\ subplots => \A i, j \in 1..n :
                                i < j => FirstSeen(sources[i]) < FirstSeen(sources[j])
             /\ fig.hidden = {c \in (0..(fig.nrows - 1)) \X (0..(fig.ncols - 1)) :
                                Index(c) >= n}
             /\ Cardinality(fig.hidden) = fig.nrows * fig.ncols - n

C14_Witness ==
    /\ pc = "done" /\ result = Return(0)
    /\ fig.backend = "matplotlib" /\ Len(fig.panes) = 7
    /\ fig.nrows = 3 /\ fig.ncols = 3
    /\ fig.hidden = {<<2, 1>>, <<2, 2>>}
    /\ fig.panes[1].src # "ts1"

\* C15: for the same series list and grid, the two builders occupy the same
\* cells with the same series and hide the same nrows * ncols - n leftover cells.
C15_SameLayoutBothBackends ==
    pc = "build" =>
       LET df == heap[df_fcast]
           m == MatplotlibForecastCreate(df, subplots, sources, nrows, ncols,
                                         include_interval).fig
           p == PlotlyForecastCreate(df, subplots, sources, nrows, ncols,
                                     include_interval, pi_q1, pi_q2).fig
       IN /\ Len(m.panes) = Len(p.panes)
          /\ \A i \in 1..Len(m.panes) :
                /\ m.panes[i].src = p.panes[i].src
                /\ m.panes[i].x = p.panes[i].x - 1
                /\ m.panes[i].y = p.panes[i].y - 1
          /\ m.hidden = {<<c[1] - 1, c[2] - 1>> : c \in p.hidden}
          /\ Cardinality(p.hidden) = nrows * ncols - Len(sources)

\* C16: in the interactive renderer, whatever the number of panes, the first
\* pane's actuals and forecast traces are the only legend-visible ones, those of
\* later panes share their legend groups, and every band trace is hidden from
\* the legend and from hover.
C16_OneLegendEntryPerChannel ==
    fig.backend = "plotly" =>
       /\ Len(fig.panes) >= 1
       /\ {i \in 1..Len(fig.panes) : fig.panes[i].actuals.showlegend} = {1}
       /\ {i \in 1..Len(fig.panes) : fig.panes[i].forecast.showlegend} = {1}
       /\ fig.panes[1].actuals.legendgroup # fig.panes[1].forecast.legendgroup
       /\ \A i \in 1..Len(fig.panes) :
             /\ fig.panes[i].actuals.legendgroup = fig.panes[1].actuals.legendgroup
             /\ fig.panes[i].forecast.legendgroup = fig.panes[1].forecast.legendgroup
             /\ \A k \in 1..Len(fig.panes[i].bands) :
                   /\ ~fig.panes[i].bands[k].showlegend
                   /\ fig.panes[i].bands[k].hoverinfo = "skip"

C16_Witness ==
    /\ pc = "done" /\ result = Return(0)
    /\ fig.backend = "plotly" /\ Len(fig.panes) = 4
    /\ Len(fig.panes[4].bands) = 2
    /\ ~fig.panes[4].actuals.showlegend

\* The rows drawn in a pane: the points of its two lines and of its bands.
PanePoints(pane) ==
    Range(pane.actuals.points) \cup Range(pane.forecast.points)
    \cup UNION {Range(pane.bands[k].points) : k \in 1..Len(pane.bands)}

\* C17: no row whose model label is "weight" is drawn in any pane, as a point
\* of the actuals line, of the forecast line or of a band, in either renderer.
C17_WeightRowsExcluded ==
    \A i \in 1..Len(fig.panes) :
       \A r \in PanePoints(fig.panes[i]) : r.model # "weight"

\* C18: in every pane the band of the outer pair q5/q95 comes before the band
\* of the inner pair q20/q80 and has strictly lower fill opacity.
C18_OuterBandFainter ==
    \A i \in 1..Len(fig.panes) :
       \A j, k \in 1..Len(fig.panes[i].bands) :
          (fig.panes[i].bands[j].low = "q5" /\ fig.panes[i].bands[k].low = "q20") =>
             /\ j < k
             /\ fig.panes[i].bands[j].alpha < fig.panes[i].bands[k].alpha

\* The dates of a line's points never decrease along the line.
Ascending(points) ==
    \A j \in 1..(Len(points) - 1) : points[j].date <= points[j + 1].date

\* C19: whatever the row order of the table, the points of every pane's actuals
\* line and forecast line are in ascending date order.
C19_AscendingDates ==
    \A i \in 1..Len(fig.panes) :
       /\ Ascending(fig.panes[i].actuals.points)
       /\ Ascending(fig.panes[i].forecast.points)

====
